---- MODULE Spec2Model ----
(***************************************************************************)
(* Food import risk engine: the shock simulator (src/src/simulate.py), the *)
(* serving operations and table cache (src/src/api.py) and the dashboard   *)
(* top table (src/app.py).                                                 *)
(*                                                                         *)
(* Quantities are integers that are multiples of Scale and shock fractions *)
(* are integers in thousandths (shock_pct = 0.35 is 350), so every product *)
(* shock_pct * quantity is an exact integer.  A table cell is a record     *)
(* [k, v]: k = "num" with the number v, k = "nan" for NaN/None, k = "str"  *)
(* for a non-numeric value, k = "ratio" for a quotient v = <<num, denom>>.  *)
(* Text (country, commodity, queries) is a sequence of characters, so that *)
(* lower-casing, stripping and substring search are computed.  Columns no  *)
(* modelled operation reads or writes (risk_band, mean_idr, production_qty,*)
(* export_qty, ...) are left out of the rows.                              *)
(***************************************************************************)
EXTENDS Integers, Sequences, FiniteSets, TLC

VARIABLES
    latest_base,   \* simulate_import_shock: the caller's table
    shock_pct,     \* simulate_import_shock: the shock fraction, in thousandths
    sim_result,    \* simulate_import_shock: what the call produced
    files,         \* the files that exist under data/processed
    disk,          \* the table each file holds
    _RISK,         \* api.py module globals: the cached tables (None until loaded)
    _BASE,
    _SIM,
    pc,            \* per request thread: its position inside _load_all
    outcomes,      \* per request thread: how each of its _load_all calls ended
    assigned,      \* how many times each cached table has been assigned
    resp,          \* the response of the latest serving request
    prev           \* the response before it, when both are the same ranking
                   \* operation with the same shock and commodity (else none)

simvars == <<latest_base, shock_pct, sim_result>>
cachevars == <<files, disk, _RISK, _BASE, _SIM>>
threadvars == <<pc, outcomes, assigned>>
servevars == <<resp, prev>>
vars == <<latest_base, shock_pct, sim_result, files, disk, _RISK, _BASE, _SIM,
          pc, outcomes, assigned, resp, prev>>

(***************************************************************************)
(* Cells                                                                   *)
(***************************************************************************)
Scale == 1000

NaN == [k |-> "nan", v |-> 0]
Num(x) == [k |-> "num", v |-> x]
NonNumeric == [k |-> "str", v |-> 0]
Ratio(n, d) == [k |-> "ratio", v |-> <<n, d>>]
TrueCell == [k |-> "bool", v |-> 1]
FalseCell == [k |-> "bool", v |-> 0]
Bool(b) == IF b THEN TrueCell ELSE FalseCell

IsNum(c) == c.k = "num"
IsRatio(c) == c.k = "ratio"

Max(a, b) == IF a >= b THEN a ELSE b
Min(a, b) == IF a <= b THEN a ELSE b

\* pd.to_numeric(col, errors="coerce").fillna(0).clip(lower=0)
CleanNoClip(c) == IF IsNum(c) THEN c.v ELSE 0
CleanNonNeg(c) == IF IsNum(c) THEN Max(c.v, 0) ELSE 0

\* (C - shock_pct * imports_used).clip(lower=0), shock_pct in thousandths
ConsumptionShockedInverted(C, used, shock) == Max(0, C - ((Scale - shock) * used) \div Scale)
ConsumptionShocked(C, used, shock) == Max(0, C - (shock * used) \div Scale)

\* (C - consumption_shocked).clip(lower=0)
ShortfallAbs(C, cs) == Max(0, C - cs)

\* np.minimum(imp, C)
ImportsUsedMax(imp, C) == Max(imp, C)
ImportsUsed(imp, C) == Min(imp, C)

\* a ratio cell clipped to [0, 1]; NaN stays NaN
ClipRatio01(c) ==
    IF ~IsRatio(c) THEN c
    ELSE IF c.v[1] < 0 THEN Ratio(0, 1)
    ELSE IF c.v[1] > c.v[2] THEN Ratio(1, 1)
    ELSE c

RatioGt1(c) == IsRatio(c) /\ c.v[1] > c.v[2]

SimCols == {"apparent_consumption", "import_qty", "flag_imports_exceed_consumption",
            "imports_used", "imports_shocked", "consumption_shocked", "shortfall_abs",
            "shortfall_pct", "idr_shocked_raw", "flag_idr_over_1", "idr_shocked"}

\* One row of simulate_import_shock (lines 29-60); the row's other columns pass through.
SimRow(r, shock) ==
    LET C == CleanNonNeg(r.apparent_consumption)
        imp == CleanNonNeg(r.import_qty)
        used == ImportsUsed(imp, C)
        shocked == (used * (Scale - shock)) \div Scale
        cs == ConsumptionShocked(C, used, shock)
        sabs == ShortfallAbs(C, cs)
        raw == IF cs > 0 THEN Ratio(shocked, cs) ELSE NaN
        new == [apparent_consumption |-> Num(C),
                import_qty |-> Num(imp),
                flag_imports_exceed_consumption |-> Bool(imp > C),
                imports_used |-> Num(used),
                imports_shocked |-> Num(shocked),
                consumption_shocked |-> Num(cs),
                shortfall_abs |-> Num(sabs),
                shortfall_pct |-> IF C > 0 THEN Ratio(sabs, C) ELSE NaN,
                idr_shocked_raw |-> raw,
                flag_idr_over_1 |-> Bool(RatioGt1(raw)),
                idr_shocked |-> ClipRatio01(raw)]
    IN [c \in (DOMAIN r) \cup SimCols |-> IF c \in SimCols THEN new[c] ELSE r[c]]

\* A table (DataFrame) is [cols: its column names, rows: a sequence of rows], a
\* row being a function from the column names to cells.
Table(cols, rows) == [cols |-> cols, rows |-> rows]

Raise(e) == [err |-> e, cols |-> {}, rows |-> <<>>]
Ok(df) == [err |-> "", cols |-> df.cols, rows |-> df.rows]

\* simulate_import_shock: a ValueError for a shock outside [0, 1] or a missing
\* required column, else the shocked copy of the table.
simulate_import_shock(df, shock) ==
    IF ~(0 <= shock /\ shock <= Scale)
    THEN Raise("ValueError: shock_pct must be between 0 and 1")
    ELSE IF ~({"apparent_consumption", "import_qty"} \subseteq df.cols)
    THEN Raise("ValueError: Missing required columns")
    ELSE Ok(Table(df.cols \cup SimCols,
                  [i \in 1..Len(df.rows) |-> SimRow(df.rows[i], shock)]))

(***************************************************************************)
(* Text                                                                    *)
(***************************************************************************)
UPPER == <<"A", "B", "C", "D", "E", "F", "G", "H", "I", "J", "K", "L", "M", "N", "O", "P", "Q", "R", "S", "T", "U", "V", "W", "X", "Y", "Z">>
LOWER == <<"a", "b", "c", "d", "e", "f", "g", "h", "i", "j", "k", "l", "m", "n", "o", "p", "q", "r", "s", "t", "u", "v", "w", "x", "y", "z">>

\* str.lower() of one character
LowerChar(c) ==
    IF \E i \in 1..Len(UPPER) : UPPER[i] = c
    THEN LOWER[CHOOSE i \in 1..Len(UPPER) : UPPER[i] = c]
    ELSE c

\* str.lower()
Lower(s) == [i \in 1..Len(s) |-> LowerChar(s[i])]

\* str.strip(): leading and trailing blanks removed
RECURSIVE LStrip(_)
LStrip(s) == IF s # <<>> /\ Head(s) = " " THEN LStrip(Tail(s)) ELSE s
RECURSIVE RStrip(_)
RStrip(s) == IF s # <<>> /\ s[Len(s)] = " " THEN RStrip(SubSeq(s, 1, Len(s) - 1)) ELSE s
Strip(s) == RStrip(LStrip(s))

\* sub in s
Contains(s, sub) ==
    \E i \in 1..(Len(s) - Len(sub) + 1) : SubSeq(s, i, i + Len(sub) - 1) = sub

\* The text a pattern matches when str.contains reads it as a regular
\* expression (its default): grouping parentheses match nothing themselves.
RegexText(p) == SelectSeq(p, LAMBDA c : c \notin {"(", ")"})

\* Series.str.contains(pat, case=False): regex search ignoring case
StrContainsNoCase(s, pat) == Contains(Lower(s), Lower(RegexText(pat)))

(***************************************************************************)
(* Special areas (api.py lines 98-112)                                     *)
(***************************************************************************)
_DROP_COUNTRY_SUBSTRINGS == <<
    <<",", " ", "m", "a", "i", "n", "l", "a", "n", "d">>,
    <<"T", "a", "i", "w", "a", "n", " ", "P", "r", "o", "v", "i", "n", "c", "e", " ", "o", "f">>,
    <<"(", "K", "i", "n", "g", "d", "o", "m", " ", "o", "f", " ", "t", "h", "e", ")">>>>

\* df["country"].astype(str).str.contains(sub, case=False, na=False), any sub
ContainsDropSubstring(country) ==
    \E i \in 1..Len(_DROP_COUNTRY_SUBSTRINGS) :
        StrContainsNoCase(country, _DROP_COUNTRY_SUBSTRINGS[i])

\* The country and commodity names of the tables
Malta == <<"M", "a", "l", "t", "a">>
Mali == <<"M", "a", "l", "i">>
Egypt == <<"E", "g", "y", "p", "t">>
ChinaMainland == <<"C", "h", "i", "n", "a", ",", " ", "m", "a", "i", "n", "l", "a", "n", "d">>
ChinaMainlandCaps == <<"C", "H", "I", "N", "A", ",", " ", "M", "A", "I", "N", "L", "A", "N", "D">>
Netherlands == <<"N", "e", "t", "h", "e", "r", "l", "a", "n", "d", "s", " ", "(", "K", "i", "n", "g", "d", "o", "m", " ", "o", "f", " ", "t", "h", "e", ")">>
Wheat == <<"W", "h", "e", "a", "t">>
Rice == <<"R", "i", "c", "e">>

CountryNames == {Malta, Mali, Egypt, ChinaMainland, ChinaMainlandCaps, Netherlands}

\* ContainsDropSubstring, worked out once for the names of the tables
SpecialAreaNames == UNION {IF ContainsDropSubstring(c) THEN {c} ELSE {} : c \in CountryNames}
IsSpecialArea(country) ==
    IF country \in CountryNames THEN country \in SpecialAreaNames
    ELSE ContainsDropSubstring(country)

Where(df, Keep(_)) == Table(df.cols, SelectSeq(df.rows, Keep))

_filter_special_areas(df) ==
    IF "country" \notin df.cols THEN df
    ELSE Where(df, LAMBDA r : ~IsSpecialArea(r.country))

(***************************************************************************)
(* DataFrame operations used by the serving code                           *)
(***************************************************************************)
\* Order of two cells under sort_values: -1 when a comes first, 1 when b
\* comes first, 0 when tied.  NaN cells come last whatever the direction
\* (na_position="last", the default) and tie with each other.
CmpCell(a, b, asc) ==
    IF ~IsNum(a) /\ ~IsNum(b) THEN 0
    ELSE IF ~IsNum(a) THEN 1
    ELSE IF ~IsNum(b) THEN 0 - 1
    ELSE IF a.v = b.v THEN 0
    ELSE IF (a.v < b.v) = asc THEN 0 - 1 ELSE 1

\* Lexicographic order of two rows on the columns by[1], by[2], ...
RECURSIVE CmpRows(_, _, _, _)
CmpRows(r1, r2, by, asc) ==
    IF by = <<>> THEN 0
    ELSE LET c == CmpCell(r1[Head(by)], r2[Head(by)], Head(asc))
         IN IF c # 0 THEN c ELSE CmpRows(r1, r2, Tail(by), Tail(asc))

\* r inserted behind every row it does not strictly precede (stable)
RECURSIVE InsertRow(_, _, _, _)
InsertRow(sorted, r, by, asc) ==
    IF sorted = <<>> THEN <<r>>
    ELSE IF CmpRows(r, Head(sorted), by, asc) < 0 THEN <<r>> \o sorted
    ELSE <<Head(sorted)>> \o InsertRow(Tail(sorted), r, by, asc)

RECURSIVE SortStable(_, _, _)
SortStable(rows, by, asc) ==
    IF rows = <<>> THEN <<>>
    ELSE InsertRow(SortStable(SubSeq(rows, 1, Len(rows) - 1), by, asc),
                   rows[Len(rows)], by, asc)

RemoveAt(q, i) == SubSeq(q, 1, i - 1) \o SubSeq(q, i + 1, Len(q))

\* The orders of an already sorted sequence that permute rows tied on the
\* column (NaN rows keep their place).
RECURSIVE TieOrders(_, _, _)
TieOrders(st, col, asc) ==
    IF st = <<>> THEN {<<>>}
    ELSE UNION {{<<st[i]>> \o rest : rest \in TieOrders(RemoveAt(st, i), col, asc)} :
                  i \in {j \in 1..Len(st) :
                           \/ j = 1
                           \/ IsNum(st[1][col]) /\ CmpCell(st[j][col], st[1][col], asc) = 0}}

\* DataFrame.sort_values(by, ascending): the orders it can return.  Several
\* columns are sorted by a stable lexsort.  One column is sorted by numpy's
\* default quicksort, which is not stable: rows tied on the column may come
\* out in any order (NaN rows keep their input order, at the end).
SortOutcomes(rows, by, asc) ==
    IF Len(by) # 1 THEN {SortStable(rows, by, asc)}
    ELSE TieOrders(SortStable(rows, by, asc), by[1], asc[1])

\* DataFrame.head(n)
TailRows(rows, n) == SubSeq(rows, Max(1, Len(rows) - n + 1), Len(rows))
HeadRows(rows, n) == SubSeq(rows, 1, Min(n, Len(rows)))

SameKey(r1, r2) == r1.country = r2.country /\ r1.commodity = r2.commodity

\* groupby(["country", "commodity"]).tail(1): the last row of each group
RECURSIVE TailPerGroup(_)
TailPerGroup(rows) ==
    IF rows = <<>> THEN <<>>
    ELSE IF \E j \in 2..Len(rows) : SameKey(rows[j], rows[1])
    THEN TailPerGroup(Tail(rows))
    ELSE <<rows[1]>> \o TailPerGroup(Tail(rows))

\* base.sort_values("year").groupby(["country", "commodity"]).tail(1)
LatestOutcomes(df) ==
    {Table(df.cols, TailPerGroup(rows)) : rows \in SortOutcomes(df.rows, <<"year">>, <<TRUE>>)}

\* DataFrame.merge(right, on=["country", "commodity"], how=...): the rows of
\* left in order, each joined with its matches in right; a non-key column
\* both sides carry is renamed with the suffixes _x and _y.
MergeKeys == {"country", "commodity"}
LeftName(c, overlap) == IF c \in overlap THEN c \o "_x" ELSE c
RightName(c, overlap) == IF c \in overlap THEN c \o "_y" ELSE c

MergeCols(left, right) ==
    LET overlap == (left.cols \cap right.cols) \ MergeKeys
    IN {LeftName(c, overlap) : c \in left.cols}
       \cup {RightName(c, overlap) : c \in right.cols \ MergeKeys}

JoinRow(l, r, found, left, right) ==
    LET overlap == (left.cols \cap right.cols) \ MergeKeys
    IN [c \in MergeCols(left, right) |->
          IF \E lc \in left.cols : LeftName(lc, overlap) = c
          THEN l[CHOOSE lc \in left.cols : LeftName(lc, overlap) = c]
          ELSE IF found
          THEN r[CHOOSE rc \in right.cols \ MergeKeys : RightName(rc, overlap) = c]
          ELSE NaN]

RECURSIVE MergeRows(_, _, _, _, _)
MergeRows(lrows, left, right, how, k) ==
    IF k > Len(lrows) THEN <<>>
    ELSE LET l == lrows[k]
             m == SelectSeq(right.rows, LAMBDA r : SameKey(l, r))
             here == IF m = <<>>
                     THEN IF how = "left" THEN <<JoinRow(l, l, FALSE, left, right)>> ELSE <<>>
                     ELSE [i \in 1..Len(m) |-> JoinRow(l, m[i], TRUE, left, right)]
         IN here \o MergeRows(lrows, left, right, how, k + 1)

Merge(left, right, how) ==
    Table(MergeCols(left, right), MergeRows(left.rows, left, right, how, 1))

\* df[[c for c in cols if c in df.columns]]
Project(df, cols) ==
    LET keep == df.cols \cap cols
    IN Table(keep, [i \in 1..Len(df.rows) |-> [c \in keep |-> df.rows[i][c]]])

\* df[col] = value computed from the row
WithColumn(df, col, F(_)) ==
    Table(df.cols \cup {col},
          [i \in 1..Len(df.rows) |->
              [c \in df.cols \cup {col} |-> IF c = col THEN F(df.rows[i]) ELSE df.rows[i][c]]])

\* round(float(v), 6): quotients are rounded to 6 decimals (half to even);
\* whole numbers are unchanged.
Decimals == 1000000
RoundDiv(n, d) ==
    LET q == n \div d
        rem == n % d
    IN IF 2 * rem > d THEN q + 1
       ELSE IF 2 * rem = d THEN q + (q % 2)
       ELSE q
RoundCell(c) == IF IsRatio(c) THEN Ratio(RoundDiv(c.v[1] * Decimals, c.v[2]), Decimals) ELSE c

\* The text columns
TextCols == {"country", "commodity"}

\* A rounding pass that starts at the second record
RoundFloatsFromSecond(records) ==
    [i \in 1..(IF records = <<>> THEN 0 ELSE Len(records) - 1) |->
        [c \in DOMAIN records[i + 1] |->
            IF c \in TextCols THEN records[i + 1][c] ELSE RoundCell(records[i + 1][c])]]

\* _round_floats(df.to_dict(orient="records"), decimals=6)
_round_floats(records) ==
    [i \in 1..Len(records) |->
        [c \in DOMAIN records[i] |->
            IF c \in TextCols THEN records[i][c] ELSE RoundCell(records[i][c])]]

\* pd.to_numeric(col, errors="coerce").fillna(0)
NumOr0(c) == IF IsNum(c) THEN c.v ELSE 0

\* _add_shortfall_abs (api.py lines 67-76)
_add_shortfall_abs(df) ==
    IF {"apparent_consumption", "consumption_shocked"} \subseteq df.cols
    THEN WithColumn(df, "shortfall_abs",
             LAMBDA r : Num(Max(0, NumOr0(r.apparent_consumption) - NumOr0(r.consumption_shocked))))
    ELSE df

NotCalled == Raise("not called")

\* What a handler leaves: status 200 with its body, or an HTTPException /
\* uncaught exception.  candidates is the table handed to the ranking sort,
\* ranked the sorted and truncated table before the output columns are picked.
NoDetail == [msg |-> "", available |-> <<>>, refs |-> {}]
NoArgs == [n |-> 0, shock_pct |-> 0, commodity |-> <<>>, country |-> <<>>, region |-> "All"]
NoBody == [records |-> <<>>, n_records |-> 0, country |-> <<>>, candidates |-> <<>>,
           ranked |-> <<>>, countries |-> <<>>, shocks |-> <<>>]

Response(op, args, status, detail, body) ==
    [op |-> op, args |-> args, status |-> status, detail |-> detail, body |-> body]

NoResponse == Response("none", NoArgs, 0, NoDetail, NoBody)

HTTPException(op, args, status, msg) ==
    Response(op, args, status, [msg |-> msg, available |-> <<>>, refs |-> {}], NoBody)

\* An exception no handler catches: the framework answers 500.
Uncaught(op, args, msg) == HTTPException(op, args, 500, msg)

(***************************************************************************)
(* Files and the table cache (api.py lines 12-38)                          *)
(***************************************************************************)
RISK_FILE == <<"risk_index_latest", 0>>
BASE_FILE == <<"base_country_commodity_year", 0>>
SnapshotFile(k) == <<"shock_simulation_latest_importdrop", k>>
SIM_FILE == SnapshotFile(20)

None == [loaded |-> FALSE, cols |-> {}, rows |-> <<>>]
Loaded(df) == [loaded |-> TRUE, cols |-> df.cols, rows |-> df.rows]

EmptyTable == Table({}, <<>>)

\* line 29: _RISK is None or _BASE is None or _SIM is None
CacheIncomplete(r, b, s) == ~r.loaded \/ ~b.loaded \/ ~s.loaded

\* line 30: the required files that do not exist
MissingRiskOnly(present) == {RISK_FILE} \ present
Missing(present) == {RISK_FILE, BASE_FILE, SIM_FILE} \ present

UpstreamUnavailable == "RuntimeError: Missing required files"

NumThreads == 2
MaxCalls == 2
Threads == 1..NumThreads

CoreFiles == {RISK_FILE, BASE_FILE, SIM_FILE}

\* Every variable outside the part a specification is about, at rest.
IdleSim ==
    /\ latest_base = EmptyTable
    /\ shock_pct = 0
    /\ sim_result = NotCalled

IdleThreads ==
    /\ pc = [t \in Threads |-> "idle"]
    /\ outcomes = [t \in Threads |-> <<>>]
    /\ assigned = [f \in CoreFiles |-> 0]

IdleCache ==
    /\ files = {}
    /\ disk = [f \in CoreFiles |-> EmptyTable]
    /\ _RISK = None /\ _BASE = None /\ _SIM = None

IdleServe == resp = NoResponse /\ prev = NoResponse

IdleRest == IdleCache /\ IdleThreads /\ IdleServe

\* A request thread enters _load_all.
Call(t) ==
    /\ pc[t] = "idle"
    /\ Len(outcomes[t]) < MaxCalls
    /\ pc' = [pc EXCEPT ![t] = "check"]
    /\ UNCHANGED <<simvars, servevars, cachevars, outcomes, assigned>>

\* line 29: the emptiness check.
Check(t) ==
    /\ pc[t] = "check"
    /\ pc' = [pc EXCEPT ![t] = IF CacheIncomplete(_RISK, _BASE, _SIM)
                                THEN "exists" ELSE "return"]
    /\ UNCHANGED <<simvars, servevars, cachevars, outcomes, assigned>>

\* lines 30-32: RuntimeError when a required file is missing.
Exists(t) ==
    /\ pc[t] = "exists"
    /\ IF Missing(files) # {}
       THEN /\ pc' = [pc EXCEPT ![t] = "idle"]
            /\ outcomes' = [outcomes EXCEPT ![t] = Append(@, UpstreamUnavailable)]
       ELSE /\ pc' = [pc EXCEPT ![t] = "read_risk"]
            /\ UNCHANGED outcomes
    /\ UNCHANGED <<simvars, servevars, cachevars, assigned>>

\* pd.read_parquet of a file that does not exist raises.
ReadFails(t) ==
    /\ pc' = [pc EXCEPT ![t] = "idle"]
    /\ outcomes' = [outcomes EXCEPT ![t] = Append(@, "FileNotFoundError")]
    /\ UNCHANGED <<simvars, servevars, cachevars, assigned>>

\* line 34: _RISK = pd.read_parquet(RISK_FILE)
ReadRisk(t) ==
    /\ pc[t] = "read_risk"
    /\ IF RISK_FILE \notin files THEN ReadFails(t)
       ELSE /\ _RISK' = Loaded(disk[RISK_FILE])
            /\ assigned' = [assigned EXCEPT ![RISK_FILE] = @ + 1]
            /\ pc' = [pc EXCEPT ![t] = "read_base"]
            /\ UNCHANGED <<simvars, servevars, files, disk, _BASE, _SIM, outcomes>>

\* line 35: _BASE = pd.read_parquet(BASE_FILE)
ReadBase(t) ==
    /\ pc[t] = "read_base"
    /\ IF BASE_FILE \notin files THEN ReadFails(t)
       ELSE /\ _BASE' = Loaded(disk[BASE_FILE])
            /\ assigned' = [assigned EXCEPT ![BASE_FILE] = @ + 1]
            /\ pc' = [pc EXCEPT ![t] = "read_sim"]
            /\ UNCHANGED <<simvars, servevars, files, disk, _RISK, _SIM, outcomes>>

\* line 36: _SIM = pd.read_parquet(SIM_FILE)
ReadSim(t) ==
    /\ pc[t] = "read_sim"
    /\ IF SIM_FILE \notin files THEN ReadFails(t)
       ELSE /\ _SIM' = Loaded(disk[SIM_FILE])
            /\ assigned' = [assigned EXCEPT ![SIM_FILE] = @ + 1]
            /\ pc' = [pc EXCEPT ![t] = "return"]
            /\ UNCHANGED <<simvars, servevars, files, disk, _RISK, _BASE, outcomes>>

\* line 38: return _RISK, _BASE, _SIM
Return(t) ==
    /\ pc[t] = "return"
    /\ pc' = [pc EXCEPT ![t] = "idle"]
    /\ outcomes' = [outcomes EXCEPT ![t] = Append(@, "returned")]
    /\ UNCHANGED <<simvars, servevars, cachevars, assigned>>

\* The ingestion pipeline writes a backing file.
FileAppears(f) ==
    /\ f \notin files
    /\ files' = files \cup {f}
    /\ UNCHANGED <<simvars, servevars, disk, _RISK, _BASE, _SIM, threadvars>>

CacheInit ==
    /\ IdleSim
    /\ IdleThreads
    /\ IdleServe
    /\ files \in SUBSET CoreFiles
    /\ disk = [f \in CoreFiles |-> EmptyTable]
    /\ _RISK = None /\ _BASE = None /\ _SIM = None

CacheNext ==
    \/ \E t \in Threads : Call(t)
    \/ \E t \in Threads : Check(t)
    \/ \E t \in Threads : Exists(t)
    \/ \E t \in Threads : ReadRisk(t)
    \/ \E t \in Threads : ReadBase(t)
    \/ \E t \in Threads : ReadSim(t)
    \/ \E t \in Threads : Return(t)
    \/ \E f \in CoreFiles : FileAppears(f)

SpecCache == CacheInit /\ [][CacheNext]_vars

Last(q) == q[Len(q)]
CacheEmpty == ~_RISK.loaded /\ ~_BASE.loaded /\ ~_SIM.loaded
CacheFull == _RISK.loaded /\ _BASE.loaded /\ _SIM.loaded

\* C2: under concurrent callers of _load_all the three cached tables are
\* populated at most once (no table is ever assigned a second time).
C2_PopulatedAtMostOnce == \A f \in CoreFiles : assigned[f] <= 1

\* A _load_all call ends in this step.
Ended(t) == Len(outcomes'[t]) = Len(outcomes[t]) + 1

\* C8: a _load_all call that ends while a backing file is missing fails with
\* the missing-files error and leaves all three cached tables unset; a call
\* that ends once all files exist returns with all three tables set.
C8_MissingFileThenRetry ==
    [][\A t \in Threads :
          Ended(t) =>
              IF Missing(files) # {}
              THEN /\ Last(outcomes'[t]) = UpstreamUnavailable
                   /\ (~_RISK.loaded /\ ~_BASE.loaded /\ ~_SIM.loaded)'
              ELSE /\ Last(outcomes'[t]) = "returned"
                   /\ (_RISK.loaded /\ _BASE.loaded /\ _SIM.loaded)'
                   /\ _RISK' = Loaded(disk[RISK_FILE])]_vars

\* A thread's first call failed on a missing file, the file then appeared, and
\* the same thread's retry returned with the cache populated.
C8_Witness ==
    \E t \in Threads :
        /\ outcomes[t] = <<UpstreamUnavailable, "returned">>
        /\ CacheFull
        /\ assigned[RISK_FILE] = 1

(***************************************************************************)
(* Object identity: the DataFrame an in-place assignment lands in          *)
(***************************************************************************)
AsTable(o) == Table(o.cols, o.rows)

WithZeroFlag(df) ==
    WithColumn(df, "flag_zero_consumption_after_shock",
               LAMBDA r : Bool(r.consumption_shocked = Num(0)))

\* A frame is the object bound to a module global ("_RISK", "_BASE", "_SIM"),
\* the caller's table ("latest_base"), or an object of the call's own.
Fresh == "fresh"

\* DataFrame.copy() returns a new object; a name rebound without it keeps
\* the object.
SameObject(obj) == obj
copy(obj) == Fresh

\* _filter_special_areas (lines 105-112) hands back df itself when it has no
\* country column, else a copy.
FilteredObject(obj, df) == IF "country" \notin df.cols THEN obj ELSE copy(obj)

\* df[col] = ... through a name bound to obj; assignments into an object of
\* the call's own are gone when the call returns.
InPlace(obj, f, shock) ==
    IF obj = Fresh THEN <<>> ELSE <<[obj |-> obj, f |-> f, shock |-> shock]>>

\* The table after the assignment w
Assign(df, w) ==
    IF w.f = "simulate" THEN AsTable(simulate_import_shock(df, w.shock))
    ELSE IF w.f = "flag_zero_consumption_after_shock" THEN WithZeroFlag(df)
    ELSE _add_shortfall_abs(df)

RECURSIVE AssignAll(_, _)
AssignAll(df, writes) ==
    IF writes = <<>> THEN df ELSE AssignAll(Assign(df, Head(writes)), Tail(writes))

\* The table the object obj holds once the assignments are done
Stored(obj, old, writes) ==
    AssignAll(old, SelectSeq(writes, LAMBDA w : w.obj = obj))
StoredCache(obj, old, writes) ==
    IF SelectSeq(writes, LAMBDA w : w.obj = obj) = <<>> THEN old
    ELSE Loaded(Stored(obj, AsTable(old), writes))

\* simulate_import_shock assigns its columns (lines 29-60) into
\* df = latest_base.copy() (line 16), after the checks of lines 19-26.
SimulateWrites(obj, df, shock) ==
    IF simulate_import_shock(df, shock).err # "" THEN <<>>
    ELSE InPlace(copy(obj), "simulate", shock)

\* The in-place assignments of a handler that runs to its end.  merge,
\* sort_values, tail, boolean indexing and read_parquet make new objects.
HandlerWrites(op, args, df) ==
    IF op = "top_risk"
    THEN LET latest_base_obj == FilteredObject(copy(Fresh), df)
         IN SimulateWrites(latest_base_obj, df, args.shock_pct)
            \o InPlace(copy(latest_base_obj), "flag_zero_consumption_after_shock", 0)
    ELSE IF op = "simulate_risk"
    THEN LET latest_base_obj == copy(Fresh)
         IN SimulateWrites(latest_base_obj, df, args.shock_pct)
            \o InPlace(copy(latest_base_obj), "flag_zero_consumption_after_shock", 0)
    ELSE IF op = "risk_by_country"
    THEN InPlace(Fresh, "shortfall_abs", 0)
    ELSE IF op = "top_risk_cached"
    THEN InPlace(FilteredObject(Fresh, df), "shortfall_abs", 0)
    ELSE <<>>

(***************************************************************************)
(* Specification of the simulator alone                                    *)
(***************************************************************************)
MaxSimRows == 2

RawCells == {NaN, NonNumeric, Num(0 - Scale), Num(0), Num(Scale), Num(2 * Scale)}
ShockInputs == {0, 200, 350, 1000, 0 - 100, 1100}

SimInputRows == [apparent_consumption : RawCells, import_qty : RawCells]
SimTables ==
    {Table({"apparent_consumption", "import_qty"}, rows) :
        rows \in UNION {[1..n -> SimInputRows] : n \in 1..MaxSimRows}}

SimInit ==
    /\ latest_base \in SimTables
    /\ shock_pct \in ShockInputs
    /\ sim_result = NotCalled
    /\ IdleRest

SimulateImportShock ==
    /\ sim_result = NotCalled
    /\ sim_result' = simulate_import_shock(latest_base, shock_pct)
    /\ latest_base' = Stored("latest_base", latest_base,
                             SimulateWrites("latest_base", latest_base, shock_pct))
    /\ UNCHANGED shock_pct
    /\ UNCHANGED <<cachevars, threadvars, servevars>>

SimNext == SimulateImportShock

SpecSim == SimInit /\ [][SimNext]_vars

SimOk == sim_result.err = ""
SimRows == sim_result.rows

\* C1: for every shock fraction in [0,1] and every record, the simulator yields
\* 0 <= consumption_shocked <= apparent_consumption and shortfall_abs >= 0.
C1_ShockedWithinBounds ==
    (SimOk /\ 0 <= shock_pct /\ shock_pct <= Scale) =>
        \A i \in 1..Len(SimRows) :
            /\ 0 <= SimRows[i].consumption_shocked.v
            /\ SimRows[i].consumption_shocked.v <= SimRows[i].apparent_consumption.v
            /\ SimRows[i].shortfall_abs.v >= 0

\* A partial shock has cut a record's consumption strictly, without emptying it,
\* next to a record whose raw inputs were negative or not numbers.
C1_Witness ==
    /\ SimOk /\ 0 < shock_pct /\ shock_pct < Scale /\ Len(SimRows) = 2
    /\ 0 < SimRows[1].consumption_shocked.v
    /\ SimRows[1].consumption_shocked.v < SimRows[1].apparent_consumption.v
    /\ SimRows[1].shortfall_abs.v > 0
    /\ latest_base.rows[2].apparent_consumption = Num(0 - Scale)
    /\ latest_base.rows[2].import_qty = NonNumeric

\* C9: with shock fraction 0 every record keeps its cleaned consumption and
\* has no shortfall.
C9_ZeroShockNoOp ==
    (SimOk /\ shock_pct = 0) =>
        \A i \in 1..Len(SimRows) :
            /\ SimRows[i].consumption_shocked = SimRows[i].apparent_consumption
            /\ SimRows[i].shortfall_abs = Num(0)

\* A zero shock ran over a record with positive consumption and positive imports.
C9_Witness ==
    /\ SimOk /\ shock_pct = 0
    /\ \E i \in 1..Len(SimRows) :
        /\ SimRows[i].apparent_consumption.v > 0
        /\ SimRows[i].import_qty.v > 0
        /\ SimRows[i].consumption_shocked = SimRows[i].apparent_consumption

\* C10: with shock fraction 1 every record is left with its consumption minus
\* min(import_qty, apparent_consumption).
C10_FullShock ==
    (SimOk /\ shock_pct = Scale) =>
        \A i \in 1..Len(SimRows) :
            SimRows[i].consumption_shocked.v =
                SimRows[i].apparent_consumption.v
                - Min(SimRows[i].import_qty.v, SimRows[i].apparent_consumption.v)

\* A full shock ran over a record importing less than it consumes and over one
\* importing more than it consumes (the capped case).
C10_Witness ==
    /\ SimOk /\ shock_pct = Scale /\ Len(SimRows) = 2
    /\ 0 < SimRows[1].import_qty.v
    /\ SimRows[1].import_qty.v < SimRows[1].apparent_consumption.v
    /\ SimRows[1].consumption_shocked.v > 0
    /\ SimRows[2].import_qty.v > SimRows[2].apparent_consumption.v
    /\ SimRows[2].apparent_consumption.v > 0
    /\ SimRows[2].flag_imports_exceed_consumption = TrueCell
    /\ SimRows[2].consumption_shocked.v = 0

(***************************************************************************)
(* Serving operations (api.py lines 143-451)                               *)
(***************************************************************************)
Records(df) == _round_floats(df.rows)

OutputCols == {"country", "commodity", "risk_score", "year", "import_qty",
               "apparent_consumption", "shortfall_pct", "shortfall_abs",
               "consumption_shocked", "idr_shocked", "flag_zero_consumption_after_shock"}

RankBy == <<"shortfall_abs", "risk_score", "apparent_consumption">>
RankDesc == <<FALSE, FALSE, FALSE>>

Range(q) == {q[i] : i \in 1..Len(q)}

\* df[df["commodity"].str.lower() == commodity.lower()]
CommodityIs(df, commodity) ==
    Where(df, LAMBDA r : Lower(r.commodity) = Lower(commodity))

\* sim["flag_zero_consumption_after_shock"] = sim["consumption_shocked"].eq(0)
SimKeep == {"country", "commodity", "shortfall_pct", "shortfall_abs",
            "consumption_shocked", "idr_shocked", "flag_zero_consumption_after_shock"}

\* top_risk (lines 260-335) from the year-sorted latest rows lb0
TopRiskFrom(risk0, lb0, args) ==
    LET filtered == args.commodity # <<>>
        lb == _filter_special_areas(IF filtered THEN CommodityIs(lb0, args.commodity) ELSE lb0)
        risk == _filter_special_areas(IF filtered THEN CommodityIs(risk0, args.commodity) ELSE risk0)
    IN IF lb.rows = <<>> \/ risk.rows = <<>>
       THEN HTTPException("top_risk", args, 404, "No rows match your filters after cleaning.")
       ELSE LET sim == simulate_import_shock(lb, args.shock_pct)
            IN IF sim.err # "" THEN Uncaught("top_risk", args, sim.err)
               ELSE LET sim_live == WithZeroFlag(Table(sim.cols, sim.rows))
                        merged == Merge(Merge(risk, lb, "inner"),
                                        Project(sim_live, SimKeep), "left")
                    IN IF ~(Range(RankBy) \subseteq merged.cols)
                       THEN Uncaught("top_risk", args, "KeyError")
                       ELSE LET ranked == HeadRows(SortStable(merged.rows, RankBy, RankDesc), args.n)
                                out == Project(Table(merged.cols, ranked), OutputCols)
                            IN Response("top_risk", args, 200, NoDetail,
                                   [NoBody EXCEPT !.records = Records(out),
                                                  !.n_records = Len(Records(out)),
                                                  !.candidates = merged.rows,
                                                  !.ranked = ranked])

top_risk(risk, base, args) ==
    {TopRiskFrom(risk, lb, args) : lb \in LatestOutcomes(base)}

\* math.ceil(shock_pct * 100)
CachedKCeiling(shock) == (shock + (Scale \div 100) - 1) \div (Scale \div 100)

\* int(round(shock_pct * 100)), shock_pct in thousandths; Python rounds half to even
CachedK(shock) == RoundDiv(shock, Scale \div 100)

\* _shock_to_cached_file (lines 86-94) for a file that is not there: a 404
\* whose detail names the shock and refers to /meta/shocks_cached for the
\* cached shocks and to /risk/top for a live run.  Were path.exists() not
\* tested (line 86), read_parquet would raise FileNotFoundError.
NoCachedFileUnchecked(args) == Uncaught("top_risk_cached", args, "FileNotFoundError")
NoCachedFile(args) ==
    Response("top_risk_cached", args, 404,
        [msg |-> "No cached file for shock_pct",
         available |-> <<>>,
         refs |-> {"/meta/shocks_cached", "/risk/top"}], NoBody)

\* top_risk_cached (lines 338-394)
top_risk_cached(present, tables, args) ==
    LET path == SnapshotFile(CachedK(args.shock_pct))
    IN IF path \notin present
       THEN {NoCachedFile(args)}
       ELSE LET df0 == tables[path]
            IN IF args.commodity # <<>> /\ "commodity" \notin df0.cols
               THEN {Uncaught("top_risk_cached", args, "KeyError")}
               ELSE LET df1 == IF args.commodity # <<>> THEN CommodityIs(df0, args.commodity) ELSE df0
                    IN IF df1.rows = <<>>
                       THEN {HTTPException("top_risk_cached", args, 404, "No rows match your filters.")}
                       ELSE LET df == _add_shortfall_abs(_filter_special_areas(df1))
                            IN IF ~(Range(RankBy) \subseteq df.cols)
                               THEN {Uncaught("top_risk_cached", args, "KeyError")}
                               ELSE LET ranked == HeadRows(SortStable(df.rows, RankBy, RankDesc), args.n)
                                        out == Project(Table(df.cols, ranked), OutputCols)
                                    IN {Response("top_risk_cached", args, 200, NoDetail,
                                           [NoBody EXCEPT !.records = Records(out),
                                                          !.n_records = Len(Records(out)),
                                                          !.candidates = df.rows,
                                                          !.ranked = ranked])}

\* A pattern re.compile accepts, for the characters the model uses: its
\* parentheses pair up.
RECURSIVE ParenDepthOk(_, _)
ParenDepthOk(p, depth) ==
    IF p = <<>> THEN depth = 0
    ELSE IF Head(p) = "(" THEN ParenDepthOk(Tail(p), depth + 1)
    ELSE IF Head(p) = ")" THEN depth > 0 /\ ParenDepthOk(Tail(p), depth - 1)
    ELSE ParenDepthOk(Tail(p), depth)
RegexCompiles(p) == ParenDepthOk(p, 0)

\* _country_match (lines 54-64): exact match on the lower-cased name, else
\* str.contains(q), a regular-expression search (re.error when q is no pattern).
_country_match(df, country) ==
    LET q == Lower(Strip(country))
        exact == Where(df, LAMBDA r : Lower(r.country) = q)
    IN IF exact.rows # <<>> THEN Ok(exact)
       ELSE IF ~RegexCompiles(q) THEN Raise("re.error")
       ELSE Ok(Where(df, LAMBDA r : Contains(Lower(r.country), RegexText(q))))

\* _filter_special_areas(_country_match(df, country))
CountryRows(df, country) ==
    LET m == _country_match(df, country)
    IN IF m.err # "" THEN m ELSE Ok(_filter_special_areas(Table(m.cols, m.rows)))

SimProfileCols == {"country", "commodity", "shortfall_pct", "consumption_shocked",
                   "flag_zero_consumption_after_shock"}

\* risk_by_country (lines 143-196)
risk_by_country(risk, base, sim, args) ==
    LET country == args.country
        risk_c == CountryRows(risk, country)
        base_c == CountryRows(base, country)
        sim_c == CountryRows(sim, country)
    IN IF risk_c.err # "" THEN {Uncaught("risk_by_country", args, risk_c.err)}
       ELSE IF risk_c.rows = <<>>
       THEN {HTTPException("risk_by_country", args, 404, "No risk data for country")}
       ELSE IF base_c.err # "" THEN {Uncaught("risk_by_country", args, base_c.err)}
       ELSE IF sim_c.err # "" THEN {Uncaught("risk_by_country", args, sim_c.err)}
       ELSE IF ~(SimProfileCols \subseteq sim.cols) \/ "risk_score" \notin risk.cols
       THEN {Uncaught("risk_by_country", args, "KeyError")}
       ELSE UNION {
           LET merged == _add_shortfall_abs(
                             Merge(Merge(AsTable(risk_c), base_c_latest, "left"),
                                   Project(AsTable(sim_c), SimProfileCols), "left"))
               picked == Project(merged, OutputCols)
           IN {Response("risk_by_country", args, 200, NoDetail,
                   [NoBody EXCEPT !.country = rows[1].country,
                                  !.n_records = Len(rows),
                                  !.records = _round_floats(rows)]) :
                 rows \in SortOutcomes(picked.rows, <<"risk_score">>, <<FALSE>>)} :
           base_c_latest \in LatestOutcomes(AsTable(base_c))}

RiskSimCols == {"country", "commodity", "risk_score"}

\* simulate_risk (lines 199-257)
simulate_risk(risk, base, args) ==
    LET country == Strip(args.country)
        base_c == CountryRows(base, country)
        risk_c0 == CountryRows(risk, country)
    IN IF base_c.err # "" THEN {Uncaught("simulate_risk", args, base_c.err)}
       ELSE IF base_c.rows = <<>>
       THEN {HTTPException("simulate_risk", args, 404, "No base data for country")}
       ELSE {LET sim0 == simulate_import_shock(lb, args.shock_pct)
                 sim == WithZeroFlag(Table(sim0.cols, sim0.rows))
                 risk_c == IF risk_c0.rows = <<>> THEN Table(RiskSimCols, <<>>)
                           ELSE AsTable(risk_c0)
             IN IF sim0.err # "" THEN Uncaught("simulate_risk", args, sim0.err)
                ELSE IF risk_c0.err # "" THEN Uncaught("simulate_risk", args, risk_c0.err)
                ELSE IF ~(RiskSimCols \subseteq risk_c.cols)
                THEN Uncaught("simulate_risk", args, "KeyError")
                ELSE LET merged == Merge(sim, Project(risk_c, RiskSimCols), "left")
                         sorted == SortStable(merged.rows, <<"shortfall_abs", "risk_score">>,
                                              <<FALSE, FALSE>>)
                         out == Project(Table(merged.cols, sorted), OutputCols)
                     IN Response("simulate_risk", args, 200, NoDetail,
                            [NoBody EXCEPT !.country = country,
                                           !.records = Records(out),
                                           !.n_records = Len(Records(out))]) :
             lb \in LatestOutcomes(AsTable(base_c))}

\* Characters in code-point order, for sorted() over text
ASCII == <<" ", "(", ")", ",">> \o UPPER \o LOWER
Ord(c) == CHOOSE i \in 1..Len(ASCII) : ASCII[i] = c

RECURSIVE TextLess(_, _)
TextLess(a, b) ==
    IF b = <<>> THEN FALSE
    ELSE IF a = <<>> THEN TRUE
    ELSE IF Head(a) = Head(b) THEN TextLess(Tail(a), Tail(b))
    ELSE Ord(Head(a)) < Ord(Head(b))

\* sorted(set of texts)
RECURSIVE SortedTexts(_)
SortedTexts(S) ==
    IF S = {} THEN <<>>
    ELSE LET least == CHOOSE x \in S : \A y \in S \ {x} : TextLess(x, y)
         IN <<least>> \o SortedTexts(S \ {least})

ListCap == 200

\* list_countries (lines 404-419)
list_countries(risk, args) ==
    LET countries_df == _filter_special_areas(Table({"country"},
                            [i \in 1..Len(risk.rows) |-> [country |-> risk.rows[i].country]]))
        countries == {r.country : r \in Range(countries_df.rows)}
        ql == Lower(Strip(args.country))
        found == IF args.country # <<>>
                 THEN {c \in countries : Contains(Lower(c), ql)}
                 ELSE countries
    IN Response("list_countries", args, 200, NoDetail,
           [NoBody EXCEPT !.n_records = Cardinality(found),
                          !.countries = HeadRows(SortedTexts(found), ListCap)])

\* list_commodities (lines 397-401)
list_commodities(risk, args) ==
    LET items == SortedTexts({r.commodity : r \in Range(risk.rows)})
    IN Response("list_commodities", args, 200, NoDetail,
           [NoBody EXCEPT !.n_records = Len(items), !.countries = items])

\* the integers k with a file shock_simulation_latest_importdrop<k>.parquet
CachedKs(present) == {f[2] : f \in {g \in present : g[1] = SnapshotFile(0)[1]}}

RECURSIVE SortedInts(_)
SortedInts(S) ==
    IF S = {} THEN <<>>
    ELSE LET least == CHOOSE x \in S : \A y \in S : x <= y
         IN <<least>> \o SortedInts(S \ {least})

\* list_cached_shocks (lines 422-451): the fractions k / 100, in thousandths
list_cached_shocks(present, args) ==
    LET ks == SortedInts(CachedKs(present))
    IN Response("list_cached_shocks", args, 200, NoDetail,
           [NoBody EXCEPT !.n_records = Len(ks),
                          !.shocks = [i \in 1..Len(ks) |-> ks[i] * (Scale \div 100)]])

(***************************************************************************)
(* Dashboard top table (app.py lines 37-196 and 301)                       *)
(***************************************************************************)
AFRICA == {<<"N", "i", "g", "e", "r", "i", "a">>, <<"E", "g", "y", "p", "t">>, <<"A", "l", "g", "e", "r", "i", "a">>, <<"M", "o", "r", "o", "c", "c", "o">>, <<"T", "u", "n", "i", "s", "i", "a">>, <<"K", "e", "n", "y", "a">>, <<"E", "t", "h", "i", "o", "p", "i", "a">>, <<"G", "h", "a", "n", "a">>, <<"S", "e", "n", "e", "g", "a", "l">>, <<"S", "o", "u", "t", "h", " ", "A", "f", "r", "i", "c", "a">>}
EU == {<<"G", "e", "r", "m", "a", "n", "y">>, <<"F", "r", "a", "n", "c", "e">>, <<"I", "t", "a", "l", "y">>, <<"S", "p", "a", "i", "n">>, <<"N", "e", "t", "h", "e", "r", "l", "a", "n", "d", "s">>, <<"B", "e", "l", "g", "i", "u", "m">>, <<"P", "o", "l", "a", "n", "d">>, <<"P", "o", "r", "t", "u", "g", "a", "l">>, <<"G", "r", "e", "e", "c", "e">>, <<"A", "u", "s", "t", "r", "i", "a">>, <<"S", "w", "e", "d", "e", "n">>, <<"F", "i", "n", "l", "a", "n", "d">>}

\* SHOCK_URLS (app.py lines 17-22): the shocks the dashboard offers
SHOCK_URLS == {100, 200, 350, 500}

\* add_shortfall_abs (app.py lines 37-44)
add_shortfall_abs(df) ==
    IF "shortfall_abs" \notin df.cols THEN _add_shortfall_abs(df) ELSE df

\* apply_region (app.py lines 92-99)
apply_region(df, region) ==
    IF df.rows = <<>> \/ "country" \notin df.cols THEN df
    ELSE IF region = "Africa" THEN Where(df, LAMBDA r : r.country \in AFRICA)
    ELSE IF region = "EU" THEN Where(df, LAMBDA r : r.country \in EU)
    ELSE df

\* safe_sort (app.py lines 51-74): the columns that exist and hold a value
SafeSortKeys(df, by) ==
    SelectSeq(by, LAMBDA c : c \in df.cols /\ \E r \in Range(df.rows) : IsNum(r[c]))

safe_sort(df, by) ==
    LET cols == SafeSortKeys(df, by)
    IN IF df.rows = <<>> \/ cols = <<>> THEN {df.rows}
       ELSE SortOutcomes(df.rows, cols, [i \in 1..Len(cols) |-> FALSE])

\* safe_num over the ranking's numeric columns: what is no number becomes NaN
NumericCols == {"shortfall_abs", "shortfall_pct", "risk_score", "import_dependency_ratio",
                "apparent_consumption"}
safe_num(df) ==
    Table(df.cols,
          [i \in 1..Len(df.rows) |->
              [c \in df.cols |->
                  IF c \in NumericCols /\ ~IsNum(df.rows[i][c]) /\ ~IsRatio(df.rows[i][c])
                  THEN NaN ELSE df.rows[i][c]]])

Preferred == {"country", "commodity", "shortfall_abs_m", "shortfall_pct", "risk_score",
              "import_dependency_ratio", "year"}

\* round(shortfall_abs / 1_000_000, 2)
Millions(c) == IF IsNum(c) THEN Ratio(RoundDiv(c.v * 100, 1000000), 100) ELSE NaN

\* build_top (app.py lines 148-196) with the sidebar's region, commodity and n,
\* and the drilldown's country list (line 301)
build_top(risk, sim_df, args) ==
    IF sim_df.rows = <<>>
    THEN {Response("build_top", args, 200, NoDetail, NoBody)}
    ELSE LET risk_cols == {"country", "commodity", "risk_score"} \cap risk.cols
             df0 == IF MergeKeys \subseteq sim_df.cols /\ MergeKeys \subseteq risk_cols
                    THEN Merge(sim_df, Project(risk, risk_cols), "left")
                    ELSE sim_df
             df1 == apply_region(df0, args.region)
             df == safe_num(IF args.commodity # <<>> /\ "commodity" \in df1.cols
                            THEN CommodityIs(df1, args.commodity) ELSE df1)
         IN {LET ranked == HeadRows(sorted, args.n)
                 withm == WithColumn(Table(df.cols, ranked), "shortfall_abs_m",
                              LAMBDA r : IF "shortfall_abs" \in df.cols
                                         THEN Millions(r.shortfall_abs) ELSE NaN)
                 df_a == Project(withm, Preferred)
             IN Response("build_top", args, 200, NoDetail,
                    [NoBody EXCEPT !.records = df_a.rows,
                                   !.n_records = Len(df_a.rows),
                                   !.candidates = df.rows,
                                   !.ranked = ranked,
                                   !.countries =
                                       IF "country" \in df_a.cols
                                       THEN SortedTexts({r.country : r \in Range(df_a.rows)})
                                       ELSE <<>>]) :
             sorted \in safe_sort(df, RankBy)}

(***************************************************************************)
(* Specification of the serving operations                                 *)
(***************************************************************************)

RiskRow(country, commodity, score) ==
    [country |-> country, commodity |-> commodity, risk_score |-> score]
BaseRow(country, commodity, year, C, imp) ==
    [country |-> country, commodity |-> commodity, year |-> Num(year),
     apparent_consumption |-> C, import_qty |-> imp]

RiskCols == {"country", "commodity", "risk_score"}
BaseCols == {"country", "commodity", "year", "apparent_consumption", "import_qty"}

RiskPool == <<
    RiskRow(Malta, Wheat, Num(2)),
    RiskRow(Egypt, Wheat, Num(2)),
    RiskRow(Mali, Wheat, Num(2)),
    RiskRow(ChinaMainland, Wheat, Num(3)),
    RiskRow(Malta, Rice, NaN)>>

BasePool == <<
    BaseRow(Malta, Wheat, 2020, Num(Scale), Num(Scale)),
    BaseRow(Malta, Wheat, 2021, Num(2 * Scale), Num(Scale)),
    BaseRow(Egypt, Wheat, 2021, Num(2 * Scale), Num(Scale)),
    BaseRow(Mali, Wheat, 2022, Num(3 * Scale), Num(Scale)),
    BaseRow(ChinaMainland, Wheat, 2023, Num(3 * Scale), Num(3 * Scale)),
    BaseRow(Malta, Rice, 2024, NaN, Num(Scale))>>

\* The rows a snapshot is computed from: latest base rows with their risk score
SnapPool == <<
    BasePool[2] @@ [risk_score |-> Num(2)],
    BasePool[3] @@ [risk_score |-> Num(2)],
    [BasePool[5] EXCEPT !.country = ChinaMainlandCaps] @@ [risk_score |-> Num(3)],
    [BasePool[6] EXCEPT !.country = Netherlands] @@ [risk_score |-> NaN]>>

Reverse(q) == [i \in 1..Len(q) |-> q[Len(q) + 1 - i]]

\* The orders and losses of rows a table is tried with: the pool, the pool
\* backwards, the pool less one row
Variants(pool) ==
    {pool, Reverse(pool)} \cup {RemoveAt(pool, i) : i \in 1..Len(pool)}

RiskTables == {Table(RiskCols, rows) : rows \in Variants(RiskPool) \cup {<<>>}}
BaseTables == {Table(BaseCols, BasePool), Table(BaseCols, RemoveAt(BasePool, 2))}

SnapshotCols == BaseCols \cup {"risk_score"} \cup (SimKeep \ {"idr_shocked"})
SnapshotColVariants == {SnapshotCols,
                        SnapshotCols \ {"risk_score"},
                        SnapshotCols \ {"shortfall_abs"},
                        SnapshotCols \ {"apparent_consumption"}}

\* The snapshot of the rows at k percent, with the columns cols
SnapshotAt(rows, k, cols) ==
    Project(WithZeroFlag(Table(SnapshotCols \cup SimCols,
                               [i \in 1..Len(rows) |-> SimRow(rows[i], k * (Scale \div 100))])),
            cols)

SnapshotFiles == {SnapshotFile(k \div (Scale \div 100)) : k \in SHOCK_URLS}
AllFiles == CoreFiles \cup SnapshotFiles

DiskOf(risk, base, rows, cols) ==
    [f \in AllFiles |->
        IF f = RISK_FILE THEN risk
        ELSE IF f = BASE_FILE THEN base
        ELSE SnapshotAt(rows, f[2], cols)]

\* The files are all there; the tables vary, or the snapshots do.
RankInit ==
    /\ IdleSim
    /\ IdleThreads
    /\ IdleServe
    /\ _RISK = None /\ _BASE = None /\ _SIM = None
    /\ files = AllFiles
    /\ \/ \E risk \in RiskTables, base \in BaseTables :
             disk = DiskOf(risk, base, SnapPool, SnapshotCols)
       \/ \E rows \in {SnapPool, Reverse(SnapPool)}, cols \in SnapshotColVariants :
             disk = DiskOf(Table(RiskCols, RiskPool), Table(BaseCols, BasePool), rows, cols)

\* A file may be missing; the tables vary.
LookupInit ==
    /\ IdleSim
    /\ IdleThreads
    /\ IdleServe
    /\ _RISK = None /\ _BASE = None /\ _SIM = None
    /\ files \in {AllFiles, AllFiles \ {BASE_FILE}, AllFiles \ {SnapshotFile(35)}}
    /\ \E risk \in RiskTables :
          disk = DiskOf(risk, Table(BaseCols, BasePool), SnapPool, SnapshotCols)

\* Query(ge=1, le=200) and Query/Field(ge=0.0, le=1.0): the framework answers
\* 422 before the handler runs.
MaxQueryN == 200
ValidArgsAnyShock(args) == 1 <= args.n /\ args.n <= MaxQueryN
ValidArgs(args) ==
    /\ 1 <= args.n /\ args.n <= MaxQueryN
    /\ 0 <= args.shock_pct /\ args.shock_pct <= Scale

Invalid(op, args) == HTTPException(op, args, 422, "validation error")

\* prev: the response being replaced, kept for a repeated ranking request
Keep(op, args) ==
    IF /\ op \in {"top_risk", "top_risk_cached"}
       /\ resp.op = op /\ resp.status = 200
       /\ resp.args.shock_pct = args.shock_pct
       /\ resp.args.commodity = args.commodity
    THEN resp ELSE NoResponse

\* A handler that starts with _load_all(): RuntimeError when the cache is
\* unset and a file is missing, else the tables, loaded on first use.
WithTables(op, args, Handle(_, _, _)) ==
    IF ~ValidArgs(args)
    THEN /\ resp' = Invalid(op, args)
         /\ UNCHANGED <<_RISK, _BASE, _SIM, assigned>>
    ELSE IF CacheIncomplete(_RISK, _BASE, _SIM)
    THEN IF Missing(files) # {}
         THEN /\ resp' = Uncaught(op, args, UpstreamUnavailable)
              /\ UNCHANGED <<_RISK, _BASE, _SIM, assigned>>
         ELSE LET writes == HandlerWrites(op, args, disk[BASE_FILE])
              IN /\ _RISK' = StoredCache("_RISK", Loaded(disk[RISK_FILE]), writes)
                 /\ _BASE' = StoredCache("_BASE", Loaded(disk[BASE_FILE]), writes)
                 /\ _SIM' = StoredCache("_SIM", Loaded(disk[SIM_FILE]), writes)
                 /\ assigned' = [f \in DOMAIN assigned |-> assigned[f] + 1]
                 /\ resp' \in Handle(disk[RISK_FILE], disk[BASE_FILE], disk[SIM_FILE])
    ELSE LET writes == HandlerWrites(op, args, AsTable(_BASE))
         IN /\ _RISK' = StoredCache("_RISK", _RISK, writes)
            /\ _BASE' = StoredCache("_BASE", _BASE, writes)
            /\ _SIM' = StoredCache("_SIM", _SIM, writes)
            /\ resp' \in Handle(AsTable(_RISK), AsTable(_BASE), AsTable(_SIM))
            /\ UNCHANGED assigned

Frame(op, args) ==
    /\ prev' = Keep(op, args)
    /\ UNCHANGED <<simvars, files, disk, pc, outcomes>>

\* The requests: no commodity or wheat; n small, and the largest allowed; a
\* valid and an invalid live shock; a cached shock with and without a
\* snapshot; the dashboard's sidebar choices.
Commodities == {<<>>, Lower(Wheat)}
TopNs == {1, 2, MaxQueryN}
LiveShocks == {350, 1100}
CachedShocks == {350, 420}
Queries == {Lower(Malta), <<"M", "a", "l">>, <<"c", "h", "i", "n", "a">>, <<"z", "z">>,
            <<"(">>, <<" ">>}
DashN == {5}
DashShocks == {350, 500}
Regions == {"All", "Africa"}

TopArgs(n, shock, commodity) ==
    [NoArgs EXCEPT !.n = n, !.shock_pct = shock, !.commodity = commodity]
CountryArgs(country, shock) ==
    [NoArgs EXCEPT !.n = 1, !.country = country, !.shock_pct = shock]

TopRisk(n, shock, commodity) ==
    LET args == TopArgs(n, shock, commodity)
    IN /\ WithTables("top_risk", args, LAMBDA r, b, x : top_risk(r, b, args))
       /\ Frame("top_risk", args)

TopRiskCached(n, shock, commodity) ==
    LET args == TopArgs(n, shock, commodity)
        path == SnapshotFile(CachedK(shock))
        writes == IF ValidArgs(args) /\ path \in files
                  THEN HandlerWrites("top_risk_cached", args, disk[path]) ELSE <<>>
    IN /\ resp' \in IF ValidArgs(args) THEN top_risk_cached(files, disk, args)
                    ELSE {Invalid("top_risk_cached", args)}
       /\ Frame("top_risk_cached", args)
       /\ _RISK' = StoredCache("_RISK", _RISK, writes)
       /\ _BASE' = StoredCache("_BASE", _BASE, writes)
       /\ _SIM' = StoredCache("_SIM", _SIM, writes)
       /\ UNCHANGED assigned

RiskByCountry(country) ==
    LET args == CountryArgs(country, 0)
    IN /\ WithTables("risk_by_country", args, LAMBDA r, b, x : risk_by_country(r, b, x, args))
       /\ Frame("risk_by_country", args)

SimulateRisk(country, shock) ==
    LET args == CountryArgs(country, shock)
    IN /\ WithTables("simulate_risk", args, LAMBDA r, b, x : simulate_risk(r, b, args))
       /\ Frame("simulate_risk", args)

ListCountries(q) ==
    LET args == CountryArgs(q, 0)
    IN /\ WithTables("list_countries", args, LAMBDA r, b, x : {list_countries(r, args)})
       /\ Frame("list_countries", args)

ListCommodities ==
    LET args == CountryArgs(<<>>, 0)
    IN /\ WithTables("list_commodities", args, LAMBDA r, b, x : {list_commodities(r, args)})
       /\ Frame("list_commodities", args)

ListCachedShocks ==
    LET args == CountryArgs(<<>>, 0)
    IN /\ resp' = list_cached_shocks(files, args)
       /\ Frame("list_cached_shocks", args)
       /\ UNCHANGED <<_RISK, _BASE, _SIM, assigned>>

\* One run of the dashboard script: the tables come from the release files.
Dashboard(region, shock_a, commodity, n) ==
    LET args == [NoArgs EXCEPT !.n = n, !.shock_pct = shock_a, !.commodity = commodity,
                               !.region = region]
        sim_a == add_shortfall_abs(disk[SnapshotFile(shock_a \div (Scale \div 100))])
    IN /\ resp' \in build_top(disk[RISK_FILE], sim_a, args)
       /\ Frame("build_top", args)
       /\ UNCHANGED <<_RISK, _BASE, _SIM, assigned>>

ServeFileAppears(f) ==
    /\ f \notin files
    /\ files' = files \cup {f}
    /\ UNCHANGED <<simvars, disk, _RISK, _BASE, _SIM, threadvars, servevars>>

RankNext ==
    \/ \E n \in TopNs, shock \in LiveShocks, c \in Commodities : TopRisk(n, shock, c)
    \/ \E n \in TopNs, shock \in CachedShocks, c \in Commodities : TopRiskCached(n, shock, c)
    \/ \E region \in Regions, shock \in DashShocks, c \in Commodities, n \in DashN :
          Dashboard(region, shock, c, n)

SpecRank == RankInit /\ [][RankNext]_vars

\* The ranking requests beside the lookups: no commodity or rice; a cached
\* shock a little off a snapshot's.
LookupCommodities == {<<>>, Lower(Rice)}
LookupCachedShocks == {350, 351, 420}

LookupNext ==
    \/ \E n \in {1, MaxQueryN}, c \in LookupCommodities : TopRisk(n, 350, c)
    \/ \E shock \in LookupCachedShocks, c \in LookupCommodities : TopRiskCached(1, shock, c)
    \/ \E q \in Queries : RiskByCountry(q)
    \/ \E q \in Queries, shock \in LiveShocks : SimulateRisk(q, shock)
    \/ \E q \in Queries \cup {<<>>} : ListCountries(q)
    \/ ListCommodities
    \/ ListCachedShocks
    \/ \E f \in AllFiles : ServeFileAppears(f)

SpecLookup == LookupInit /\ [][LookupNext]_vars

(***************************************************************************)
(* Properties of the ranking operations                                    *)
(***************************************************************************)
Ranked(ops) == resp.op \in ops /\ resp.status = 200

\* sub in country, ignoring case, for a blocklisted sub read literally
HasBlocklistedSubstring(country) ==
    \E i \in 1..Len(_DROP_COUNTRY_SUBSTRINGS) :
        Contains(Lower(country), Lower(_DROP_COUNTRY_SUBSTRINGS[i]))

\* C3: no country carrying a blocklisted special-area substring appears in
\* the records of a response, nor in the dashboard's drilldown country list.
C3_NoSpecialAreaInOutputs ==
    /\ \A i \in 1..Len(resp.body.records) :
          "country" \in DOMAIN resp.body.records[i]
              => ~HasBlocklistedSubstring(resp.body.records[i].country)
    /\ \A i \in 1..Len(resp.body.countries) :
          ~HasBlocklistedSubstring(resp.body.countries[i])

\* C4: top_risk left-joins the base rows with the risk table: every base row
\* that passes the commodity and special-area filters is a candidate of the
\* ranking, whether or not the risk table has a row for it.
C4_UnscoredRowsAreCandidates ==
    (resp.op = "top_risk" /\ resp.status \in {200, 404}) =>
        \A i \in 1..Len(disk[BASE_FILE].rows) :
            LET b == disk[BASE_FILE].rows[i]
            IN (/\ resp.args.commodity # <<>> => Lower(b.commodity) = Lower(resp.args.commodity)
                /\ ~HasBlocklistedSubstring(b.country))
               => /\ resp.status = 200
                  /\ \E j \in 1..Len(resp.body.candidates) :
                        SameKey(resp.body.candidates[j], b)

\* The cached fractions, ascending, in thousandths
AvailableFractions == [i \in 1..Len(SortedInts(CachedKs(files))) |->
                          SortedInts(CachedKs(files))[i] * (Scale \div 100)]

NoSnapshotFor(r) ==
    /\ r.op = "top_risk_cached"
    /\ ValidArgs(r.args)
    /\ SnapshotFile(CachedK(r.args.shock_pct)) \notin files

IsPrefix(p, q) == Len(p) <= Len(q) /\ SubSeq(q, 1, Len(p)) = p

\* C6: of two answers of top_risk (or of top_risk_cached) to the same shock
\* and commodity over the same tables, the records of the one with the
\* smaller n are a prefix of the records of the other.
C6_MonotonicTruncation ==
    prev.op # "none" =>
        /\ prev.args.n <= resp.args.n => IsPrefix(prev.body.records, resp.body.records)
        /\ resp.args.n <= prev.args.n => IsPrefix(resp.body.records, prev.body.records)

C6_Witness ==
    /\ prev.op = "top_risk_cached"
    /\ prev.args.n < resp.args.n
    /\ Len(prev.body.records) = prev.args.n
    /\ Len(prev.body.records) < Len(resp.body.records)

\* The cell a row is ranked on: undefined when the table has no such column
KeyCell(r, c) == IF c \in DOMAIN r THEN r[c] ELSE NaN

\* Order of two rows under the ranking: RankBy, each descending, NaN last
RECURSIVE RankCmp(_, _, _)
RankCmp(r1, r2, by) ==
    IF by = <<>> THEN 0
    ELSE LET c == CmpCell(KeyCell(r1, Head(by)), KeyCell(r2, Head(by)), FALSE)
         IN IF c # 0 THEN c ELSE RankCmp(r1, r2, Tail(by))

Position(rows, r) == CHOOSE i \in 1..Len(rows) : rows[i] = r

\* C7: a ranking (top_risk, top_risk_cached, the dashboard's top table) is in
\* the order shortfall_abs, risk_score, apparent_consumption, each
\* descending with undefined values last; rows tied on the three keys keep
\* the order they had before the sort.
C7_RankedInKeyOrder ==
    Ranked({"top_risk", "top_risk_cached", "build_top"}) =>
        \A i, j \in 1..Len(resp.body.ranked) :
            i < j =>
                LET c == RankCmp(resp.body.ranked[i], resp.body.ranked[j], RankBy)
                IN \/ c < 0
                   \/ /\ c = 0
                      /\ Position(resp.body.candidates, resp.body.ranked[i])
                            < Position(resp.body.candidates, resp.body.ranked[j])

(***************************************************************************)
(* Shock fractions outside [0, 1]: the simulator called directly and the   *)
(* operations that take shock_pct, over one set of files                   *)
(***************************************************************************)
ShockTables ==
    {Table({"apparent_consumption", "import_qty"}, <<[apparent_consumption |-> C, import_qty |-> imp]>>) :
        C \in {NaN, Num(2 * Scale)}, imp \in {Num(0 - Scale), Num(Scale)}}
RequestShocks == {350, 0 - 100, 1100}

ShockInit ==
    /\ latest_base \in ShockTables
    /\ shock_pct \in ShockInputs
    /\ sim_result = NotCalled
    /\ IdleThreads
    /\ IdleServe
    /\ _RISK = None /\ _BASE = None /\ _SIM = None
    /\ files = AllFiles
    /\ disk = DiskOf(Table(RiskCols, RiskPool), Table(BaseCols, BasePool), SnapPool, SnapshotCols)

ShockNext ==
    \/ SimulateImportShock
    \/ \E shock \in RequestShocks : TopRisk(1, shock, <<>>)
    \/ \E shock \in RequestShocks : TopRiskCached(1, shock, <<>>)
    \/ \E shock \in RequestShocks : SimulateRisk(Lower(Malta), shock)
    \/ RiskByCountry(Lower(Malta))
    \/ ListCountries(<<>>)
    \/ ListCommodities
    \/ ListCachedShocks

SpecShock == ShockInit /\ [][ShockNext]_vars

InUnitRange(shock) == 0 <= shock /\ shock <= Scale

\* C11: a shock fraction outside [0, 1] makes simulate_import_shock raise its
\* ValueError and return no row at all; top_risk, top_risk_cached and
\* simulate_risk answer such a shock_pct with the validation error 422, with
\* no record, and not with the 500 a ValueError of the simulator would give.
C11_InvalidShockRejected ==
    /\ (sim_result # NotCalled /\ ~InUnitRange(shock_pct)) =>
          /\ sim_result.err = "ValueError: shock_pct must be between 0 and 1"
          /\ sim_result.rows = <<>>
    /\ (resp.op \in {"top_risk", "top_risk_cached", "simulate_risk"}
            /\ ~InUnitRange(resp.args.shock_pct)) =>
          /\ resp.status = 422
          /\ resp.body = NoBody

C11_Witness ==
    /\ sim_result # NotCalled /\ shock_pct = 1100 /\ sim_result.rows = <<>>
    /\ resp.op = "simulate_risk" /\ resp.args.shock_pct = 0 - 100 /\ resp.status = 422

(***************************************************************************)
(* Properties of the country operations                                    *)
(***************************************************************************)
\* The request was handled by its handler: validation passed, _load_all
\* found its files
Handled(ops) ==
    /\ resp.op \in ops
    /\ resp.status # 422
    /\ resp.detail.msg # UpstreamUnavailable

\* Resolution as stated: the special-area rows leave first, then the exact
\* match on the lower-cased name, else the rows whose name contains the query
Resolved(df, query) ==
    LET q == Lower(Strip(query))
        clean == SelectSeq(df.rows, LAMBDA r : ~HasBlocklistedSubstring(r.country))
        exact == SelectSeq(clean, LAMBDA r : Lower(r.country) = q)
    IN IF exact # <<>> THEN exact
       ELSE SelectSeq(clean, LAMBDA r : Contains(Lower(r.country), q))

KeysOf(rows) == {<<rows[i].country, rows[i].commodity>> : i \in 1..Len(rows)}

\* C12: risk_by_country answers with the rows Resolved finds in the risk
\* table and simulate_risk with those it finds in the base table (404 when it
\* finds none), for every query.
C12_ResolutionFiltersThenMatches ==
    /\ Handled({"risk_by_country"}) =>
          LET found == Resolved(disk[RISK_FILE], resp.args.country)
          IN IF found = <<>> THEN resp.status = 404
             ELSE resp.status = 200 /\ KeysOf(resp.body.records) = KeysOf(found)
    /\ Handled({"simulate_risk"}) =>
          LET found == Resolved(disk[BASE_FILE], resp.args.country)
          IN IF found = <<>> THEN resp.status = 404
             ELSE resp.status = 200 /\ KeysOf(resp.body.records) = KeysOf(found)

\* C13: a ranking request over tables that have the join keys country and
\* commodity does not raise, whether or not the optional sort columns
\* risk_score and apparent_consumption are there: it is answered 200 (or 404
\* when no row is left), never 500.
C13_MissingSortColumnTolerated ==
    /\ (Handled({"top_risk_cached"})
            /\ SnapshotFile(CachedK(resp.args.shock_pct)) \in files
            /\ MergeKeys \subseteq disk[SnapshotFile(CachedK(resp.args.shock_pct))].cols)
          => resp.status \in {200, 404}
    /\ (Handled({"top_risk"})
            /\ MergeKeys \subseteq disk[RISK_FILE].cols
            /\ MergeKeys \subseteq disk[BASE_FILE].cols)
          => resp.status \in {200, 404}

\* C14: once the cache is populated, no serving operation changes the cached
\* risk, base and default-snapshot tables; the request that populates the
\* cache leaves in it the tables as loaded; and no call of
\* simulate_import_shock changes the table it is passed.
C14_SharedTablesUnchanged ==
    [][/\ ~CacheIncomplete(_RISK, _BASE, _SIM)
            => (_RISK' = _RISK /\ _BASE' = _BASE /\ _SIM' = _SIM)
       /\ (CacheIncomplete(_RISK, _BASE, _SIM) /\ ~CacheIncomplete(_RISK', _BASE', _SIM'))
            => /\ _RISK' = Loaded(disk[RISK_FILE])
               /\ _BASE' = Loaded(disk[BASE_FILE])
               /\ _SIM' = Loaded(disk[SIM_FILE])
       /\ latest_base' = latest_base]_vars

\* The simulator has returned a shocked table, and a live ranking has been
\* answered twice, the second time from the populated cache.
C14_Witness ==
    /\ sim_result # NotCalled /\ SimOk /\ SimRows # <<>>
    /\ resp.op = "top_risk" /\ resp.status = 200
    /\ prev.op = "top_risk" /\ prev.status = 200
    /\ _RISK = Loaded(disk[RISK_FILE])
    /\ _BASE = Loaded(disk[BASE_FILE])
    /\ _SIM = Loaded(disk[SIM_FILE])

\* The rows of df left by the commodity filter and the special-area exclusion
Surviving(df, commodity) ==
    SelectSeq(df.rows, LAMBDA r :
        /\ commodity = <<>> \/ Lower(r.commodity) = Lower(commodity)
        /\ ~HasBlocklistedSubstring(r.country))

\* C15: a ranking request for which no row survives the commodity filter and
\* the special-area exclusion is answered NotFound (404), live and cached.
C15_NothingLeftIsNotFound ==
    /\ (Handled({"top_risk_cached"})
            /\ resp.detail.msg # NoCachedFile(resp.args).detail.msg
            /\ Surviving(disk[SnapshotFile(CachedK(resp.args.shock_pct))],
                         resp.args.commodity) = <<>>)
          => resp.status = 404
    /\ (Handled({"top_risk"})
            /\ \/ Surviving(disk[RISK_FILE], resp.args.commodity) = <<>>
               \/ Surviving(disk[BASE_FILE], resp.args.commodity) = <<>>)
          => resp.status = 404

\* C16: every successful answer of the country profile, the ad-hoc
\* simulation, the live ranking and the cached ranking reports as n_records
\* the number of records it returns.
C16_RecordCountMatches ==
    (Handled({"risk_by_country", "simulate_risk", "top_risk", "top_risk_cached"})
        /\ resp.status = 200)
      => resp.body.n_records = Len(resp.body.records)

\* A country profile of several records
C16_Witness ==
    /\ resp.op = "risk_by_country" /\ resp.status = 200
    /\ Len(resp.body.records) >= 2
    /\ resp.body.n_records = Len(resp.body.records)

\* The integer percents nearest to a shock given in thousandths
NearestPercents(shock) ==
    LET below == shock \div 10
        down == shock - 10 * below
        up == 10 * (below + 1) - shock
    IN IF down < up THEN {below} ELSE IF up < down THEN {below + 1} ELSE {below, below + 1}

\* C17: a cached ranking is looked up by the shock fraction rounded to the
\* nearest integer percent (0.351 as 0.35): it fails with "no cached file"
\* exactly when the snapshot of that percent does not exist, and otherwise
\* ranks the rows of that snapshot.
C17_SnapshotByNearestPercent ==
    [][(files' = files /\ Handled({"top_risk_cached"})') =>
        \A k \in NearestPercents(resp'.args.shock_pct) :
            /\ (resp'.status = 404 /\ resp'.detail.msg = NoCachedFile(resp'.args).detail.msg)
                  <=> SnapshotFile(k) \notin files
            /\ resp'.status = 200 =>
                  KeysOf(resp'.body.candidates)
                      = KeysOf(Surviving(disk[SnapshotFile(k)], resp'.args.commodity))
            /\ resp'.status = 200 =>
                  \A i \in 1..Len(resp'.body.candidates) :
                      \E r \in Range(disk[SnapshotFile(k)].rows) :
                          /\ r.country = resp'.body.candidates[i].country
                          /\ r.commodity = resp'.body.candidates[i].commodity
                          /\ r.consumption_shocked = resp'.body.candidates[i].consumption_shocked
            /\ UNCHANGED <<disk, _RISK, _BASE, _SIM>>]_vars

\* A request at 0.351 answered from the rows of the 35 percent snapshot
C17_Witness ==
    /\ resp.op = "top_risk_cached" /\ resp.status = 200
    /\ resp.args.shock_pct = 351
    /\ resp.body.candidates # <<>>
    /\ SnapshotFile(35) \in files

(***************************************************************************)
(* The simulator's arithmetic in binary64                                  *)
(*                                                                         *)
(* SimRow computes the columns of lines 39-60 in exact arithmetic.  numpy  *)
(* computes them in IEEE 754 binary64, every operation rounded to the      *)
(* nearest 53-bit significand, ties to even.  Float64Row is that           *)
(* computation.  A natural number is a sequence of limbs, least            *)
(* significant first, with no leading zero limb; a float is m * 2^e with m *)
(* odd (or zero), or NaN.                                                  *)
(***************************************************************************)
LimbBits == 10
Base == 2^LimbBits
Precision == 53

One == <<1>>
Limb(a, i) == IF i <= Len(a) THEN a[i] ELSE 0

RECURSIVE Trim(_)
Trim(a) ==
    IF a = <<>> THEN a
    ELSE IF a[Len(a)] = 0 THEN Trim(SubSeq(a, 1, Len(a) - 1))
    ELSE a

RECURSIVE Limbs(_)
Limbs(n) == IF n = 0 THEN <<>> ELSE <<n % Base>> \o Limbs(n \div Base)

RECURSIVE AddFrom(_, _, _, _)
AddFrom(a, b, i, carry) ==
    IF i > Max(Len(a), Len(b))
    THEN IF carry = 0 THEN <<>> ELSE <<carry>>
    ELSE LET t == Limb(a, i) + Limb(b, i) + carry
         IN <<t % Base>> \o AddFrom(a, b, i + 1, t \div Base)
AddN(a, b) == AddFrom(a, b, 1, 0)

\* a - b for a >= b
RECURSIVE SubFrom(_, _, _, _)
SubFrom(a, b, i, borrow) ==
    IF i > Len(a) THEN <<>>
    ELSE LET t == a[i] - Limb(b, i) - borrow
         IN IF t < 0 THEN <<t + Base>> \o SubFrom(a, b, i + 1, 1)
            ELSE <<t>> \o SubFrom(a, b, i + 1, 0)
SubN(a, b) == Trim(SubFrom(a, b, 1, 0))

\* -1, 0, 1 as a is below, equal to, above b
RECURSIVE CmpFrom(_, _, _)
CmpFrom(a, b, i) ==
    IF i = 0 THEN 0
    ELSE IF a[i] < b[i] THEN 0 - 1
    ELSE IF a[i] > b[i] THEN 1
    ELSE CmpFrom(a, b, i - 1)
CmpN(a, b) ==
    IF Len(a) < Len(b) THEN 0 - 1
    ELSE IF Len(a) > Len(b) THEN 1
    ELSE CmpFrom(a, b, Len(a))

\* a * c for 0 <= c <= Base
RECURSIVE MulSmallFrom(_, _, _, _)
MulSmallFrom(a, c, i, carry) ==
    IF i > Len(a)
    THEN IF carry = 0 THEN <<>> ELSE <<carry>>
    ELSE LET t == a[i] * c + carry
         IN <<t % Base>> \o MulSmallFrom(a, c, i + 1, t \div Base)
MulSmall(a, c) == IF c = 0 THEN <<>> ELSE Trim(MulSmallFrom(a, c, 1, 0))

ShiftLimbs(a, k) == IF a = <<>> THEN a ELSE [i \in 1..k |-> 0] \o a

RECURSIVE MulFrom(_, _, _)
MulFrom(a, b, i) ==
    IF i > Len(b) THEN <<>>
    ELSE AddN(ShiftLimbs(MulSmall(a, b[i]), i - 1), MulFrom(a, b, i + 1))
MulN(a, b) == MulFrom(a, b, 1)

\* a // c for 1 <= c <= Base
RECURSIVE DivSmallFrom(_, _, _, _)
DivSmallFrom(a, c, i, rem) ==
    IF i = 0 THEN <<>>
    ELSE LET t == rem * Base + a[i]
         IN DivSmallFrom(a, c, i - 1, t % c) \o <<t \div c>>
DivSmall(a, c) == Trim(DivSmallFrom(a, c, Len(a), 0))

\* a * 2^bits and a // 2^bits
ShiftLeft(a, bits) == ShiftLimbs(MulSmall(a, 2^(bits % LimbBits)), bits \div LimbBits)
ShiftRight(a, bits) ==
    IF bits \div LimbBits >= Len(a) THEN <<>>
    ELSE DivSmall(SubSeq(a, bits \div LimbBits + 1, Len(a)), 2^(bits % LimbBits))

RECURSIVE BitLenSmall(_)
BitLenSmall(x) == IF x = 0 THEN 0 ELSE 1 + BitLenSmall(x \div 2)
BitLen(a) == IF a = <<>> THEN 0 ELSE LimbBits * (Len(a) - 1) + BitLenSmall(a[Len(a)])

\* bit i of a, bit 0 the least significant
Bit(a, i) == (Limb(a, i \div LimbBits + 1) \div 2^(i % LimbBits)) % 2
IsOdd(a) == a # <<>> /\ a[1] % 2 = 1

\* Long division of n by d, bits i down to lo of n brought down into the
\* remainder one at a time (the test on Len(q) has q evaluated at every bit)
RECURSIVE DivStep(_, _, _, _, _, _)
DivStep(n, d, i, lo, q, rem) ==
    IF i < lo THEN [q |-> q, rem |-> rem]
    ELSE LET r2 == AddN(MulSmall(rem, 2), IF Bit(n, i) = 1 THEN One ELSE <<>>)
         IN IF Len(q) >= 0 /\ CmpN(r2, d) >= 0
            THEN DivStep(n, d, i - 1, lo, AddN(MulSmall(q, 2), One), SubN(r2, d))
            ELSE DivStep(n, d, i - 1, lo, MulSmall(q, 2), r2)

\* limb k of n downwards
RECURSIVE DivLimbs(_, _, _)
DivLimbs(n, d, k) ==
    IF k > Len(n) THEN [q |-> <<>>, rem |-> <<>>]
    ELSE LET above == DivLimbs(n, d, k + 1)
         IN DivStep(n, d, k * LimbBits - 1, (k - 1) * LimbBits, above.q, above.rem)
DivN(n, d) == DivLimbs(n, d, 1)

FNaN == [nan |-> TRUE, m |-> <<>>, e |-> 0]
FZero == [nan |-> FALSE, m |-> <<>>, e |-> 0]

\* m * 2^e with m made odd
RECURSIVE Canon(_, _)
Canon(m, e) ==
    IF m = <<>> THEN FZero
    ELSE IF IsOdd(m) THEN [nan |-> FALSE, m |-> m, e |-> e]
    ELSE IF m[1] = 0 THEN Canon(Tail(m), e + LimbBits)
    ELSE Canon(DivSmall(m, 2), e + 1)

\* The float nearest to n * 2^e, ties to the even significand
Round(n, e) ==
    IF BitLen(n) <= Precision THEN Canon(n, e)
    ELSE LET sh == BitLen(n) - Precision
             q == ShiftRight(n, sh)
             r == SubN(n, ShiftLeft(q, sh))
             c == CmpN(r, ShiftLeft(One, sh - 1))
         IN Canon(IF c > 0 \/ (c = 0 /\ IsOdd(q)) THEN AddN(q, One) ELSE q, e + sh)

FInt(n) == Canon(Limbs(n), 0)

\* The significands of x and y at their smaller exponent
Aligned(x, y) ==
    LET e == Min(x.e, y.e)
    IN [x |-> ShiftLeft(x.m, x.e - e), y |-> ShiftLeft(y.m, y.e - e), e |-> e]

\* x < y, x > y, min; nonnegative floats, False when either is NaN
FLess(x, y) == ~x.nan /\ ~y.nan /\ CmpN(Aligned(x, y).x, Aligned(x, y).y) < 0
FGreater(x, y) == FLess(y, x)
FMin(x, y) == IF FLess(y, x) THEN y ELSE x

FMul(x, y) == Round(MulN(x.m, y.m), x.e + y.e)

\* (x - y).clip(lower=0)
FSubClip0(x, y) ==
    IF FLess(x, y) THEN FZero
    ELSE Round(SubN(Aligned(x, y).x, Aligned(x, y).y), Aligned(x, y).e)

\* x / y for y > 0: the quotient to two bits more than the precision and a
\* sticky bit for the remainder, then rounded
FDiv(x, y) ==
    LET sh == Max(0, Precision + 2 + BitLen(y.m) - BitLen(x.m))
        d == DivN(ShiftLeft(x.m, sh), y.m)
        sticky == IF d.rem = <<>> THEN <<>> ELSE One
    IN Round(AddN(MulSmall(d.q, 2), sticky), x.e - y.e - sh - 1)

\* .clip(0, 1) of a nonnegative float; NaN stays NaN
FClip01(x) == IF FGreater(x, FInt(1)) THEN FInt(1) ELSE x

Float64Cols == {"imports_used", "imports_shocked", "consumption_shocked",
                "idr_shocked_raw", "flag_idr_over_1", "idr_shocked"}

\* Lines 29-60 for one row, shock_pct the double nearest to shock / Scale
Float64Row(r, shock) ==
    LET C == FInt(CleanNonNeg(r.apparent_consumption))
        imp == FInt(CleanNonNeg(r.import_qty))
        s == FDiv(FInt(shock), FInt(Scale))
        used == FMin(imp, C)
        shocked == FMul(used, FSubClip0(FInt(1), s))
        cs == FSubClip0(C, FMul(s, used))
        raw == IF FGreater(cs, FZero) THEN FDiv(shocked, cs) ELSE FNaN
    IN [imports_used |-> used,
        imports_shocked |-> shocked,
        consumption_shocked |-> cs,
        idr_shocked_raw |-> raw,
        flag_idr_over_1 |-> FGreater(raw, FInt(1)),
        idr_shocked |-> FClip01(raw)]

simulate_import_shock_float64(df, shock) ==
    IF simulate_import_shock(df, shock).err # "" THEN simulate_import_shock(df, shock)
    ELSE Ok(Table(Float64Cols, [i \in 1..Len(df.rows) |-> Float64Row(df.rows[i], shock)]))

MaxQuantity == 7
FloatShocks == {0, 200, 350, 500, 1000, 1100}
FloatTables ==
    {Table({"apparent_consumption", "import_qty"},
           <<[apparent_consumption |-> Num(C), import_qty |-> Num(imp)]>>) :
        C \in 0..MaxQuantity, imp \in 0..MaxQuantity}

FloatInit ==
    /\ latest_base \in FloatTables
    /\ shock_pct \in FloatShocks
    /\ sim_result = NotCalled
    /\ IdleRest

SimulateImportShockFloat64 ==
    /\ sim_result = NotCalled
    /\ sim_result' = simulate_import_shock_float64(latest_base, shock_pct)
    /\ latest_base' = Stored("latest_base", latest_base,
                             SimulateWrites("latest_base", latest_base, shock_pct))
    /\ UNCHANGED shock_pct
    /\ UNCHANGED <<cachevars, threadvars, servevars>>

FloatNext == SimulateImportShockFloat64

SpecFloat == FloatInit /\ [][FloatNext]_vars

\* C18: in the output of simulate_import_shock no row has flag_idr_over_1
\* set, and idr_shocked equals idr_shocked_raw in every row (the clip to
\* [0, 1] changes no value).
C18_ClipNeverActs ==
    (sim_result # NotCalled /\ SimOk) =>
        \A i \in 1..Len(SimRows) :
            /\ ~SimRows[i].flag_idr_over_1
            /\ SimRows[i].idr_shocked = SimRows[i].idr_shocked_raw

\* C19: in every successful country profile, each record's country is the
\* country named at the top of the answer.
C19_RecordsBelongToCountry ==
    (resp.op = "risk_by_country" /\ resp.status = 200) =>
        \A i \in 1..Len(resp.body.records) :
            resp.body.records[i].country = resp.body.country

====
